---- MODULE Spec2Model ----
(***************************************************************************)
(* Model of the persistence layer of the WaWi inventory manager:          *)
(* BaseManager / ProductManager / CustomerManager over one connection     *)
(* adapter (SQLiteConnection), the Product and Customer value objects,     *)
(* and DatabaseConnectionFactory.create_connection.                       *)
(***************************************************************************)
EXTENDS Integers, Sequences, FiniteSets, TLC

(***************************************************************************)
(* Bounds of the model.                                                    *)
(***************************************************************************)
\* rows a table's AUTOINCREMENT sequence may hand out
MaxId == 2
\* database calls that may fail (driver error or other exception) in one run
MaxFaults == 1

(***************************************************************************)
(* Python values.  Every value carries its type tag, as Python's do.       *)
(***************************************************************************)
PyNone == [t |-> "None"]
PyInt(n) == [t |-> "int", i |-> n]
PyFloat(n) == [t |-> "float", f |-> n]
PyStr(s) == [t |-> "str", s |-> s]
PyBool(b) == [t |-> "bool", b |-> b]
PyObj(o) == [t |-> "obj", o |-> o]
PyList(l) == [t |-> "list", l |-> l]

\* Python truthiness of the values used as names, prices and quantities
Truthy(v) ==
    CASE v.t = "None" -> FALSE
      [] v.t = "int" -> v.i # 0
      [] v.t = "float" -> v.f # 0
      [] v.t = "str" -> v.s # ""
      [] v.t = "bool" -> v.b
      [] v.t = "list" -> v.l # <<>>
      [] OTHER -> TRUE

\* the numeric value of an int or a float
NumOf(v) == IF v.t = "int" THEN v.i ELSE v.f

\* str.replace(',', '.') on the price texts of the model
ReplaceComma(s) == IF s = "1,0" THEN "1.0" ELSE s

\* float(x): the parsed number, or the exception float() raises
PyFloatOf(v) ==
    CASE v.t = "int" -> [exc |-> "none", v |-> PyFloat(v.i)]
      [] v.t = "float" -> [exc |-> "none", v |-> v]
      [] v.t = "str" -> IF v.s = "1.0" THEN [exc |-> "none", v |-> PyFloat(1)]
                        ELSE [exc |-> "ValueError", v |-> PyNone]
      [] OTHER -> [exc |-> "TypeError", v |-> PyNone]

\* int(x): the parsed integer, or the exception int() raises
PyIntOf(v) ==
    CASE v.t = "int" -> [exc |-> "none", v |-> v]
      [] v.t = "float" -> [exc |-> "none", v |-> PyInt(v.f)]
      [] v.t = "str" -> IF v.s = "2" THEN [exc |-> "none", v |-> PyInt(2)]
                        ELSE [exc |-> "ValueError", v |-> PyNone]
      [] OTHER -> [exc |-> "TypeError", v |-> PyNone]

(***************************************************************************)
(* Product (model/product_model.py) and BaseModel (model/base_model.py).   *)
(***************************************************************************)
\* methods defined on each class (looked up by item.validate())
ClassMethods(cls) ==
    CASE cls = "Product" -> {"__init__", "set_price", "set_quantity", "validate", "to_dict", "__str__"}
      [] cls = "Customer" -> {"__init__", "toDict", "__str__"}
      [] OTHER -> {}

\* int(x) if x is not None else None
IntOrNone(x) == IF x.t = "None" THEN PyNone ELSE PyIntOf(x).v

\* BaseModel.__init__: self.id = int(id) if id is not None else None
BaseModel_init(id) == IntOrNone(id)

\* Product.set_price: every failure, a negative price included, is re-raised
\* as ValueError by the except clause
Product_set_price(price) ==
    LET checked(parsed) ==
            IF parsed.exc # "none" THEN [exc |-> "ValueError", v |-> PyNone]
            ELSE IF parsed.v.f < 0 THEN [exc |-> "ValueError", v |-> PyNone]
            ELSE [exc |-> "none", v |-> parsed.v]
    IN  checked(PyFloatOf(IF price.t = "str" THEN PyStr(ReplaceComma(price.s)) ELSE price))

\* Product.set_quantity
Product_set_quantity(quantity) ==
    LET checked(parsed) ==
            IF parsed.exc # "none" THEN [exc |-> "ValueError", v |-> PyNone]
            ELSE IF parsed.v.i < 0 THEN [exc |-> "ValueError", v |-> PyNone]
            ELSE [exc |-> "none", v |-> parsed.v]
    IN  checked(PyIntOf(quantity))

\* Product.validate: name non-empty, price and quantity not None
Product_validate(o) ==
    IF ~Truthy(o.name) THEN "ValueError"
    ELSE IF o.price.t = "None" THEN "ValueError"
    ELSE IF o.quantity.t = "None" THEN "ValueError"
    ELSE "none"

\* Product.__init__(name, price, quantity, id)
Product_init(name, price, quantity, id) ==
    LET built(sp, sq, o) ==
            IF sp.exc # "none" THEN [exc |-> sp.exc, o |-> o]
            ELSE IF sq.exc # "none" THEN [exc |-> sq.exc, o |-> o]
            ELSE [exc |-> Product_validate(o), o |-> o]
        assigned(sp, sq) ==
            built(sp, sq, [cls |-> "Product", id |-> BaseModel_init(id),
                           name |-> IF Truthy(name) THEN name ELSE PyStr(""),
                           price |-> sp.v, quantity |-> sq.v])
    IN  assigned(Product_set_price(price), Product_set_quantity(quantity))

(***************************************************************************)
(* Customer (model/customer_model.py): not a BaseModel, no validate(), and *)
(* its constructor's fifth parameter is customerId.                        *)
(***************************************************************************)
\* the texts the model uses as e-mail addresses that match the pattern
WellFormedEmails == {"e@x.de"}

\* keyword parameters Customer.__init__ accepts
Customer_init_params == {"name", "address", "email", "phone", "customerId"}

\* Customer.__init__ called with the keyword arguments kw
Customer_init(kw) ==
    IF ~(DOMAIN kw \subseteq Customer_init_params) THEN [exc |-> "TypeError", o |-> PyNone]
    ELSE IF ~Truthy(kw.name) THEN [exc |-> "ValueError", o |-> PyNone]
    ELSE IF ~Truthy(kw.address) THEN [exc |-> "ValueError", o |-> PyNone]
    ELSE IF ~Truthy(kw.email) THEN [exc |-> "ValueError", o |-> PyNone]
    ELSE IF kw.email.s \notin WellFormedEmails THEN [exc |-> "ValueError", o |-> PyNone]
    ELSE [exc |-> "none",
          o |-> [cls |-> "Customer",
                 customerId |-> IF "customerId" \in DOMAIN kw THEN IntOrNone(kw.customerId) ELSE PyNone,
                 name |-> kw.name, address |-> kw.address, email |-> kw.email,
                 phone |-> IF Truthy(kw.phone) THEN kw.phone ELSE PyStr("")]]

(***************************************************************************)
(* The database behind the connection and the SQLiteConnection adapter     *)
(* (model/sqlite_connection.py).  A connection value d is the record       *)
(*   conn      "none" (never connected), "open" or "closed"                *)
(*   error     the adapter's _error: PyNone or the last message            *)
(*   rows      per table, the rows in rowid order                          *)
(*   nextId    per table, the next AUTOINCREMENT value                     *)
(*   lastRowId what last_insert_rowid() answers                            *)
(*   stmts     the statements handed to cursor.execute in the current call *)
(*   txn       the calls of commit() and rollback() in the current call,   *)
(*             each with the number of statements issued before it         *)
(***************************************************************************)
Tables == {"products", "customers"}

\* the primary-key column each CREATE TABLE statement declares
IdColumn(table) == IF table = "products" THEN "product_id" ELSE "customer_id"

\* the NOT NULL columns of each table (model/database_queries.py)
NotNullColumns(table) ==
    IF table = "products" THEN {"name", "price", "quantity"}
    ELSE {"name", "address", "email"}

\* outcomes the environment may give one call into the database driver:
\* it works, it raises the driver's Error, or it raises something else
Outcomes == {"ok", "error", "raise"}

\* what SQLite stores for a bound value: an integral REAL bound to a NUMERIC
\* or INTEGER column is stored, and read back, as an integer
SqliteStore(v) == IF v.t = "float" THEN PyInt(v.f) ELSE v

\* the rows of s whose column c differs from v, in order
RECURSIVE RowsWithout(_, _, _)
RowsWithout(s, c, v) ==
    IF s = <<>> THEN <<>>
    ELSE IF Head(s)[c] = v THEN RowsWithout(Tail(s), c, v)
    ELSE <<Head(s)>> \o RowsWithout(Tail(s), c, v)

\* the rows of s whose column c equals v, in order
RECURSIVE RowsWith(_, _, _)
RowsWith(s, c, v) ==
    IF s = <<>> THEN <<>>
    ELSE IF Head(s)[c] = v THEN <<Head(s)>> \o RowsWith(Tail(s), c, v)
    ELSE RowsWith(Tail(s), c, v)

\* does the database accept statement q in state d (constraints, columns)
StatementAccepted(d, q) ==
    CASE q.kind = "INSERT" ->
            \A c \in NotNullColumns(q.table) : c \in DOMAIN q.row /\ q.row[c].t # "None"
      [] q.kind \in {"DELETE", "SELECT_ONE"} -> q.idcol = IdColumn(q.table)
      [] OTHER -> TRUE

\* the database after statement q has run, and the rows its cursor holds
StatementEffect(d, q) ==
    CASE q.kind = "INSERT" ->
            LET id == d.nextId[q.table]
                row == (IdColumn(q.table) :> PyInt(id)) @@ [c \in DOMAIN q.row |-> SqliteStore(q.row[c])]
            IN  [d |-> [d EXCEPT !.rows[q.table] = Append(@, row),
                                 !.nextId[q.table] = id + 1,
                                 !.lastRowId = id],
                 res |-> <<>>]
      [] q.kind = "DELETE" ->
            [d |-> [d EXCEPT !.rows[q.table] = RowsWithout(@, q.idcol, q.id)], res |-> <<>>]
      [] q.kind = "SELECT_ALL" -> [d |-> d, res |-> d.rows[q.table]]
      [] q.kind = "SELECT_ONE" -> [d |-> d, res |-> RowsWith(d.rows[q.table], q.idcol, q.id)]
      [] q.kind = "LAST_ID" -> [d |-> d, res |-> <<[id |-> PyInt(d.lastRowId)]>>]
      [] OTHER -> [d |-> d, res |-> <<>>]

\* SQLiteConnection.connect under outcome o
SQLiteConnection_connect(d, o) ==
    CASE o = "ok" -> [d |-> [d EXCEPT !.conn = "open"], exc |-> "none", r |-> TRUE]
      [] o = "error" -> [d |-> [d EXCEPT !.error = PyStr("Error connecting to SQLite")],
                         exc |-> "none", r |-> FALSE]
      [] OTHER -> [d |-> d, exc |-> "Exception", r |-> FALSE]

\* SQLiteConnection.disconnect: closes cursor and connection, keeps both
\* attributes; closing a closed connection raises the driver's Error
SQLiteConnection_disconnect(d) ==
    CASE d.conn = "none" -> [d |-> d, r |-> TRUE]
      [] d.conn = "open" -> [d |-> [d EXCEPT !.conn = "closed"], r |-> TRUE]
      [] OTHER -> [d |-> [d EXCEPT !.error = PyStr("Error disconnecting from SQLite")], r |-> FALSE]

\* a cursor.execute that resets the adapter's error when the statement worked
CursorExecute_clearing(d, q, o) ==
    LET note(ok) == IF q.kind = "CREATE" THEN [kind |-> q.kind, ok |-> ok, table |-> q.table]
                    ELSE [kind |-> q.kind, ok |-> ok]
        noted(ok) == [d EXCEPT !.stmts = Append(@, note(ok))]
        raised == [d EXCEPT !.stmts = Append(@, [kind |-> q.kind, ok |-> FALSE, raised |-> TRUE])]
        failed(n) == [d |-> [n EXCEPT !.error = PyStr("Error executing query")],
                      exc |-> "none", r |-> FALSE, res |-> <<>>]
        done(e) == [d |-> [e.d EXCEPT !.error = PyNone], exc |-> "none", r |-> TRUE, res |-> e.res]
    IN  IF d.conn = "closed" THEN failed(noted(FALSE))
        ELSE IF o = "raise" THEN [d |-> raised, exc |-> "Exception", r |-> FALSE, res |-> <<>>]
        ELSE IF o = "error" \/ ~StatementAccepted(d, q) THEN failed(noted(FALSE))
        ELSE done(StatementEffect(noted(TRUE), q))

\* cursor.execute(query, params) on an established connection; the
\* statement and whether it worked are noted in stmts, a CREATE TABLE with
\* its table, and a statement that raised something other than the driver's
\* Error as raised
CursorExecute(d, q, o) ==
    LET note(ok) == IF q.kind = "CREATE" THEN [kind |-> q.kind, ok |-> ok, table |-> q.table]
                    ELSE [kind |-> q.kind, ok |-> ok]
        noted(ok) == [d EXCEPT !.stmts = Append(@, note(ok))]
        raised == [d EXCEPT !.stmts = Append(@, [kind |-> q.kind, ok |-> FALSE, raised |-> TRUE])]
        failed(n) == [d |-> [n EXCEPT !.error = PyStr("Error executing query")],
                      exc |-> "none", r |-> FALSE, res |-> <<>>]
        done(e) == [d |-> e.d, exc |-> "none", r |-> TRUE, res |-> e.res]
    IN  IF d.conn = "closed" THEN failed(noted(FALSE))
        ELSE IF o = "raise" THEN [d |-> raised, exc |-> "Exception", r |-> FALSE, res |-> <<>>]
        ELSE IF o = "error" \/ ~StatementAccepted(d, q) THEN failed(noted(FALSE))
        ELSE done(StatementEffect(noted(TRUE), q))

\* a variant of execute_query that tries a failed statement a second time
SQLiteConnection_execute_query_retry(d, q, o) ==
    LET again(first) ==
            IF first.exc = "none" /\ ~first.r THEN CursorExecute(first.d, q, o) ELSE first
        connected(c) ==
            IF c.exc # "none" THEN [d |-> c.d, exc |-> c.exc, r |-> FALSE, res |-> <<>>]
            ELSE IF ~c.r THEN [d |-> c.d, exc |-> "none", r |-> FALSE, res |-> <<>>]
            ELSE again(CursorExecute(c.d, q, "ok"))
    IN  IF d.conn = "none" THEN connected(SQLiteConnection_connect(d, o))
        ELSE again(CursorExecute(d, q, o))

\* SQLiteConnection.execute_query: connect first when there is no connection
\* object, then hand the statement to the cursor once
SQLiteConnection_execute_query(d, q, o) ==
    LET connected(c) ==
            IF c.exc # "none" THEN [d |-> c.d, exc |-> c.exc, r |-> FALSE, res |-> <<>>]
            ELSE IF ~c.r THEN [d |-> c.d, exc |-> "none", r |-> FALSE, res |-> <<>>]
            ELSE CursorExecute(c.d, q, "ok")
    IN  IF d.conn = "none" THEN connected(SQLiteConnection_connect(d, o))
        ELSE CursorExecute(d, q, o)

\* SQLiteConnection.fetch_all: the rows, or None when the statement failed
SQLiteConnection_fetch_all(d, q, o) ==
    LET fetched(e) ==
            IF e.exc # "none" THEN [d |-> e.d, exc |-> e.exc, isNone |-> TRUE, res |-> <<>>]
            ELSE IF ~e.r THEN [d |-> e.d, exc |-> "none", isNone |-> TRUE, res |-> <<>>]
            ELSE [d |-> e.d, exc |-> "none", isNone |-> FALSE, res |-> e.res]
    IN  fetched(SQLiteConnection_execute_query(d, q, o))

\* SQLiteConnection.fetch_one: the first row, or None (no row, or failure)
SQLiteConnection_fetch_one(d, q, o) ==
    LET fetched(e) ==
            IF e.exc # "none" THEN [d |-> e.d, exc |-> e.exc, isNone |-> TRUE, res |-> <<>>]
            ELSE IF ~e.r \/ e.res = <<>> THEN [d |-> e.d, exc |-> "none", isNone |-> TRUE, res |-> <<>>]
            ELSE [d |-> e.d, exc |-> "none", isNone |-> FALSE, res |-> <<Head(e.res)>>]
    IN  fetched(SQLiteConnection_execute_query(d, q, o))

\* SQLiteConnection.commit
SQLiteConnection_commit(d, o) ==
    LET noted(ok) == [d EXCEPT !.txn = Append(@, [kind |-> "commit", ok |-> ok, after |-> Len(d.stmts)])]
    IN  IF d.conn = "none" THEN [d |-> noted(FALSE), exc |-> "none", r |-> FALSE]
        ELSE IF d.conn = "closed" \/ o = "error"
        THEN [d |-> [noted(FALSE) EXCEPT !.error = PyStr("Error committing transaction")],
              exc |-> "none", r |-> FALSE]
        ELSE IF o = "raise" THEN [d |-> noted(FALSE), exc |-> "Exception", r |-> FALSE]
        ELSE [d |-> noted(TRUE), exc |-> "none", r |-> TRUE]

\* SQLiteConnection.rollback
SQLiteConnection_rollback(d, o) ==
    LET noted(ok) == [d EXCEPT !.txn = Append(@, [kind |-> "rollback", ok |-> ok, after |-> Len(d.stmts)])]
    IN  IF d.conn = "none" THEN [d |-> noted(FALSE), exc |-> "none", r |-> FALSE]
        ELSE IF d.conn = "closed" \/ o = "error"
        THEN [d |-> [noted(FALSE) EXCEPT !.error = PyStr("Error rolling back transaction")],
              exc |-> "none", r |-> FALSE]
        ELSE IF o = "raise" THEN [d |-> noted(FALSE), exc |-> "Exception", r |-> FALSE]
        ELSE [d |-> noted(TRUE), exc |-> "none", r |-> TRUE]

\* SQLiteConnection.get_last_insert_id: the id, or None when the query failed
SQLiteConnection_get_last_insert_id(d, o) ==
    LET result(f) ==
            IF f.exc # "none" THEN [d |-> f.d, exc |-> f.exc, v |-> PyNone]
            ELSE IF ~f.isNone /\ "id" \in DOMAIN Head(f.res)
            THEN [d |-> f.d, exc |-> "none", v |-> Head(f.res).id]
            ELSE [d |-> f.d, exc |-> "none", v |-> PyNone]
    IN  result(SQLiteConnection_fetch_one(d, [kind |-> "LAST_ID"], o))

(***************************************************************************)
(* The managers (model/base_manager.py, product_manager.py,                *)
(* customer_manager.py).  A manager's cache is a sequence of references    *)
(* into the heap, so that one object cached twice is one object.           *)
(***************************************************************************)
Managers == {"ProductManager", "CustomerManager"}

\* references to the objects the caches hold; a cache never holds more
\* objects than rows were inserted
Refs == 1 .. MaxId

\* get_table_name
get_table_name(m) == IF m = "ProductManager" THEN "products" ELSE "customers"

\* the model class handed to BaseManager.__init__
model_class(m) == IF m = "ProductManager" THEN "Product" ELSE "Customer"

\* model_to_db_mapping: attribute -> column
model_to_db_mapping(m) ==
    IF m = "ProductManager"
    THEN [name |-> "name", price |-> "price", quantity |-> "quantity"]
    ELSE [name |-> "name", address |-> "address", email |-> "email", phone |-> "phone"]

\* str.rstrip('s') on the table names
RStripS(s) == IF s = "products" THEN "product" ELSE IF s = "customers" THEN "customer" ELSE s

\* BaseManager.get_id_field_name
get_id_field_name(m) == RStripS(get_table_name(m)) \o "_id"

\* a factory that does not pass the row's id to the constructor
db_to_model_factory_no_id(m, row) ==
    IF m = "ProductManager"
    THEN Product_init(row.name, row.price, row.quantity, PyNone)
    ELSE Customer_init([name |-> row.name, address |-> row.address, email |-> row.email,
                        phone |-> row.phone, id |-> row.customer_id])

\* db_to_model_factory of the two managers; CustomerManager passes id=
db_to_model_factory(m, row) ==
    IF m = "ProductManager"
    THEN Product_init(row.name, row.price, row.quantity, row.product_id)
    ELSE Customer_init([name |-> row.name, address |-> row.address, email |-> row.email,
                        phone |-> row.phone, id |-> row.customer_id])

\* item.validate(): the method must exist on the item's class
CallValidate(o) ==
    IF "validate" \notin ClassMethods(o.cls) THEN "AttributeError"
    ELSE Product_validate(o)

\* the INSERT statement add builds: one value per mapped attribute, no id
InsertStatement(m, o) ==
    LET mapping == model_to_db_mapping(m)
    IN  [kind |-> "INSERT", table |-> get_table_name(m),
         row |-> [c \in {mapping[a] : a \in DOMAIN mapping} |->
                    o[CHOOSE a \in DOMAIN mapping : mapping[a] = c]]]

\* the smallest reference no cache uses
FreeRef(hp) == CHOOSE r \in Refs : r \notin DOMAIN hp /\ \A q \in Refs : q \notin DOMAIN hp => r <= q

\* the heap restricted to the references in rs
Restrict(hp, rs) == [r \in (DOMAIN hp) \cap rs |-> hp[r]]

\* the references occurring in a sequence
RefsOf(its) == {its[i] : i \in 1 .. Len(its)}

\* the body of add's try block.  arg.obj is the item, arg.ref its reference
\* when it is cached already (0 when it is not); os are the outcomes of the
\* INSERT, the commit and the last-insert-id query
BaseManager_add_try(m, d, its, hp, arg, os) ==
    LET unchanged(exc, dd) == [exc |-> exc, ret |-> FALSE, d |-> dd, items |-> its, heap |-> hp]
        appended(g, r, o) ==
            [exc |-> "none", ret |-> TRUE, d |-> g.d, items |-> Append(its, r),
             heap |-> (r :> [o EXCEPT !.id = g.v]) @@ hp]
        afterLastId(g) ==
            IF g.exc # "none" THEN unchanged(g.exc, g.d)
            ELSE IF arg.ref # 0 THEN appended(g, arg.ref, hp[arg.ref])
            ELSE appended(g, FreeRef(hp), arg.obj)
        afterCommit(c) ==
            IF c.exc # "none" THEN unchanged(c.exc, c.d)
            ELSE afterLastId(SQLiteConnection_get_last_insert_id(c.d, os[3]))
        afterInsert(e) ==
            IF e.exc # "none" THEN unchanged(e.exc, e.d)
            ELSE IF ~e.r THEN unchanged("none", e.d)
            ELSE afterCommit(SQLiteConnection_commit(e.d, os[2]))
        validated(v) ==
            IF v # "none" THEN unchanged(v, d)
            ELSE IF \E a \in DOMAIN model_to_db_mapping(m) : a \notin DOMAIN arg.obj
            THEN unchanged("AttributeError", d)
            ELSE afterInsert(SQLiteConnection_execute_query(d, InsertStatement(m, arg.obj), os[1]))
    IN  validated(CallValidate(arg.obj))

\* BaseManager.add: the isinstance check, then the try block with its
\* except ValueError and except Exception handlers, both returning False
BaseManager_add(m, d, its, hp, arg, os) ==
    LET handled(b) == IF b.exc = "none" THEN b ELSE [b EXCEPT !.exc = "none", !.ret = FALSE]
    IN  IF arg.obj.cls # model_class(m)
        THEN [exc |-> "none", ret |-> FALSE, d |-> d, items |-> its, heap |-> hp]
        ELSE handled(BaseManager_add_try(m, d, its, hp, arg, os))

\* [item for item in self._items if getattr(item, "id") != item_id]
RECURSIVE ItemsWithoutId(_, _, _)
ItemsWithoutId(its, hp, id) ==
    IF its = <<>> THEN <<>>
    ELSE IF hp[Head(its)].id # id THEN <<Head(its)>> \o ItemsWithoutId(Tail(its), hp, id)
    ELSE ItemsWithoutId(Tail(its), hp, id)

\* a remove that leaves the cache as it is
BaseManager_remove_try_keep(m, d, its, hp, id, os) ==
    LET unchanged(exc, dd) == [exc |-> exc, ret |-> FALSE, d |-> dd, items |-> its, heap |-> hp]
        q == [kind |-> "DELETE", table |-> get_table_name(m), idcol |-> get_id_field_name(m), id |-> id]
        afterCommit(c) ==
            IF c.exc # "none" THEN unchanged(c.exc, c.d)
            ELSE [exc |-> "none", ret |-> TRUE, d |-> c.d, items |-> its, heap |-> hp]
        afterDelete(e) ==
            IF e.exc # "none" THEN unchanged(e.exc, e.d)
            ELSE IF ~e.r THEN unchanged("none", e.d)
            ELSE afterCommit(SQLiteConnection_commit(e.d, os[2]))
    IN  afterDelete(SQLiteConnection_execute_query(d, q, os[1]))

\* a remove that evicts from the cache before it runs the DELETE
BaseManager_remove_try_evict_first(m, d, its, hp, id, os) ==
    LET evicted(exc, ret, dd) ==
            [exc |-> exc, ret |-> ret, d |-> dd, items |-> ItemsWithoutId(its, hp, id), heap |-> hp]
        q == [kind |-> "DELETE", table |-> get_table_name(m), idcol |-> get_id_field_name(m), id |-> id]
        afterCommit(c) ==
            IF c.exc # "none" THEN evicted(c.exc, FALSE, c.d) ELSE evicted("none", TRUE, c.d)
        afterDelete(e) ==
            IF e.exc # "none" THEN evicted(e.exc, FALSE, e.d)
            ELSE IF ~e.r THEN evicted("none", FALSE, e.d)
            ELSE afterCommit(SQLiteConnection_commit(e.d, os[2]))
    IN  afterDelete(SQLiteConnection_execute_query(d, q, os[1]))

\* the body of remove's try block; os are the outcomes of DELETE and commit
BaseManager_remove_try(m, d, its, hp, id, os) ==
    LET unchanged(exc, dd) == [exc |-> exc, ret |-> FALSE, d |-> dd, items |-> its, heap |-> hp]
        q == [kind |-> "DELETE", table |-> get_table_name(m), idcol |-> get_id_field_name(m), id |-> id]
        afterCommit(c) ==
            IF c.exc # "none" THEN unchanged(c.exc, c.d)
            ELSE IF \E i \in 1 .. Len(its) : "id" \notin DOMAIN hp[its[i]]
            THEN unchanged("AttributeError", c.d)
            ELSE [exc |-> "none", ret |-> TRUE, d |-> c.d,
                  items |-> ItemsWithoutId(its, hp, id), heap |-> hp]
        afterDelete(e) ==
            IF e.exc # "none" THEN unchanged(e.exc, e.d)
            ELSE IF ~e.r THEN unchanged("none", e.d)
            ELSE afterCommit(SQLiteConnection_commit(e.d, os[2]))
    IN  afterDelete(SQLiteConnection_execute_query(d, q, os[1]))

\* BaseManager.remove: the try block and its except Exception handler
BaseManager_remove(m, d, its, hp, id, os) ==
    LET handled(b) == IF b.exc = "none" THEN b ELSE [b EXCEPT !.exc = "none", !.ret = FALSE]
    IN  handled(BaseManager_remove_try(m, d, its, hp, id, os))

\* the loop of load_all over the fetched rows: a row whose construction
\* raises ValueError is skipped, any other exception leaves the loop
RECURSIVE LoadRows(_, _, _, _)
LoadRows(m, rows, its, hp) ==
    LET made(f, r) ==
            IF f.exc = "none" THEN LoadRows(m, Tail(rows), Append(its, r), (r :> f.o) @@ hp)
            ELSE IF f.exc = "ValueError" THEN LoadRows(m, Tail(rows), its, hp)
            ELSE [exc |-> f.exc, items |-> its, heap |-> hp]
    IN  IF rows = <<>> THEN [exc |-> "none", items |-> its, heap |-> hp]
        ELSE made(db_to_model_factory(m, Head(rows)), FreeRef(hp))

\* a load_all that appends to the cache without emptying it first
BaseManager_load_all_try_append(m, d, its, hp, others, o) ==
    LET loaded(f, l) ==
            [exc |-> l.exc, ret |-> (l.exc = "none"), d |-> f.d, items |-> l.items, heap |-> l.heap]
        fetched(f) ==
            IF f.exc # "none" THEN [exc |-> f.exc, ret |-> FALSE, d |-> f.d, items |-> its, heap |-> hp]
            ELSE IF ~f.isNone /\ f.res # <<>> THEN loaded(f, LoadRows(m, f.res, its, hp))
            ELSE [exc |-> "none", ret |-> ~Truthy(f.d.error), d |-> f.d, items |-> its, heap |-> hp]
    IN  fetched(SQLiteConnection_fetch_all(d, [kind |-> "SELECT_ALL", table |-> get_table_name(m)], o))

\* a load_all that keeps the cache when the SELECT gave nothing
BaseManager_load_all_try_retain(m, d, its, hp, others, o) ==
    LET loaded(f, l) ==
            [exc |-> l.exc, ret |-> (l.exc = "none"), d |-> f.d, items |-> l.items, heap |-> l.heap]
        fetched(f) ==
            IF f.exc # "none" THEN [exc |-> f.exc, ret |-> FALSE, d |-> f.d, items |-> its, heap |-> hp]
            ELSE IF ~f.isNone /\ f.res # <<>>
            THEN loaded(f, LoadRows(m, f.res, <<>>, Restrict(hp, others)))
            ELSE [exc |-> "none", ret |-> ~Truthy(f.d.error), d |-> f.d, items |-> its, heap |-> hp]
    IN  fetched(SQLiteConnection_fetch_all(d, [kind |-> "SELECT_ALL", table |-> get_table_name(m)], o))

\* the body of load_all's try block.  others are the references the other
\* manager's cache holds, which stay on the heap
BaseManager_load_all_try(m, d, its, hp, others, o) ==
    LET loaded(f, l) ==
            [exc |-> l.exc, ret |-> (l.exc = "none"), d |-> f.d, items |-> l.items, heap |-> l.heap]
        fetched(f) ==
            IF f.exc # "none" THEN [exc |-> f.exc, ret |-> FALSE, d |-> f.d, items |-> its, heap |-> hp]
            ELSE IF ~f.isNone /\ f.res # <<>>
            THEN loaded(f, LoadRows(m, f.res, <<>>, Restrict(hp, others)))
            ELSE [exc |-> "none", ret |-> ~Truthy(f.d.error), d |-> f.d, items |-> <<>>,
                  heap |-> Restrict(hp, others)]
    IN  fetched(SQLiteConnection_fetch_all(d, [kind |-> "SELECT_ALL", table |-> get_table_name(m)], o))

\* BaseManager.load_all: the try block and its except Exception handler
BaseManager_load_all(m, d, its, hp, others, o) ==
    LET handled(b) == IF b.exc = "none" THEN b ELSE [b EXCEPT !.exc = "none", !.ret = FALSE]
    IN  handled(BaseManager_load_all_try(m, d, its, hp, others, o))

\* the body of get_by_id's try block: the object built from the row, or None
BaseManager_get_by_id_try(m, d, id, o) ==
    LET q == [kind |-> "SELECT_ONE", table |-> get_table_name(m), idcol |-> get_id_field_name(m), id |-> id]
        made(f, b) ==
            IF b.exc = "none" THEN [exc |-> "none", ret |-> PyObj(b.o), d |-> f.d]
            ELSE IF b.exc = "ValueError" THEN [exc |-> "none", ret |-> PyNone, d |-> f.d]
            ELSE [exc |-> b.exc, ret |-> PyNone, d |-> f.d]
        fetched(f) ==
            IF f.exc # "none" THEN [exc |-> f.exc, ret |-> PyNone, d |-> f.d]
            ELSE IF f.isNone THEN [exc |-> "none", ret |-> PyNone, d |-> f.d]
            ELSE made(f, db_to_model_factory(m, Head(f.res)))
    IN  fetched(SQLiteConnection_fetch_one(d, q, o))

\* a get_by_id whose try block has no except Exception handler
BaseManager_get_by_id_uncaught(m, d, id, o) == BaseManager_get_by_id_try(m, d, id, o)

\* BaseManager.get_by_id: the try block and its except Exception handler
BaseManager_get_by_id(m, d, id, o) ==
    LET handled(b) == IF b.exc = "none" THEN b ELSE [b EXCEPT !.exc = "none", !.ret = PyNone]
    IN  handled(BaseManager_get_by_id_try(m, d, id, o))

(***************************************************************************)
(* create_tables and DatabaseConnectionFactory                             *)
(* (model/database_connection_factory.py, model/database_config.py).       *)
(***************************************************************************)
\* DatabaseQueries.create_tables_query(): the two CREATE TABLE statements
create_tables_query == <<[kind |-> "CREATE", table |-> "products"],
                         [kind |-> "CREATE", table |-> "customers"]>>

\* a connection object as SQLiteConnection.__init__ leaves it
NewConnection ==
    [conn |-> "none", error |-> PyNone,
     rows |-> [t \in Tables |-> <<>>], nextId |-> [t \in Tables |-> 1],
     lastRowId |-> 0, stmts |-> <<>>, txn |-> <<>>]

\* the connection as a call finds it: the notes of the call before are dropped
NewCall(d) == [d EXCEPT !.stmts = <<>>, !.txn = <<>>]

\* the loop of create_tables: a statement that fails raises the driver's
\* Error, which ends the loop
RECURSIVE CreateLoop(_, _, _, _)
CreateLoop(d, queries, os, i) ==
    LET executed(e) ==
            IF e.exc # "none" THEN [d |-> e.d, exc |-> e.exc, r |-> FALSE]
            ELSE IF ~e.r THEN [d |-> e.d, exc |-> "Error", r |-> FALSE]
            ELSE CreateLoop(e.d, queries, os, i + 1)
    IN  IF i > Len(queries) THEN [d |-> d, exc |-> "none", r |-> TRUE]
        ELSE executed(SQLiteConnection_execute_query(d, queries[i], os[i]))

\* a create_tables that returns False after a failed statement without
\* rolling back
SQLiteConnection_create_tables_no_rollback(d, queries, os) ==
    LET end == IF queries.t = "list" THEN os[Len(queries.l) + 1] ELSE "ok"
        committed(c) == [d |-> c.d, exc |-> c.exc, r |-> c.exc = "none"]
        looped(l) ==
            IF l.exc = "none" THEN committed(SQLiteConnection_commit(l.d, end))
            ELSE IF l.exc = "Error"
            THEN [d |-> [l.d EXCEPT !.error = PyStr("Error creating tables")], exc |-> "none", r |-> FALSE]
            ELSE l
    IN  IF ~Truthy(queries) THEN [d |-> d, exc |-> "none", r |-> TRUE]
        ELSE looped(CreateLoop(d, queries.l, os, 1))

\* SQLiteConnection.create_tables: os are the outcomes of the statements and
\* of the commit or rollback that ends the call
SQLiteConnection_create_tables(d, queries, os) ==
    LET end == IF queries.t = "list" THEN os[Len(queries.l) + 1] ELSE "ok"
        committed(c) == [d |-> c.d, exc |-> c.exc, r |-> c.exc = "none"]
        rolledBack(b) == [d |-> b.d, exc |-> b.exc, r |-> FALSE]
        looped(l) ==
            IF l.exc = "none" THEN committed(SQLiteConnection_commit(l.d, end))
            ELSE IF l.exc = "Error"
            THEN rolledBack(SQLiteConnection_rollback(
                                [l.d EXCEPT !.error = PyStr("Error creating tables")], end))
            ELSE l
    IN  IF ~Truthy(queries) THEN [d |-> d, exc |-> "none", r |-> TRUE]
        ELSE looped(CreateLoop(d, queries.l, os, 1))

\* the attributes of the class object DatabaseConfig: its methods only
DatabaseConfig_class_attrs ==
    {"__init__", "_get_absolute_sqlite_path", "_get_relative_sqlite_path", "load_config",
     "save_config", "get_active_db_type", "set_db_type", "get_mariadb_config",
     "set_mariadb_config", "set_mariadb_config_with_port", "get_sqlite_config", "set_sqlite_path"}

\* what the factory has not produced
NoConnection == [kind |-> "None", connectAttempted |-> FALSE, d |-> NewConnection]

\* _create_sqlite_connection: the default argument of .get() is evaluated
\* before the call, then the connection is built and connect() attempted
DatabaseConnectionFactory_create_sqlite_connection(o) ==
    LET built(c) ==
            [exc |-> c.exc, c |-> [kind |-> "SQLiteConnection", connectAttempted |-> TRUE, d |-> c.d]]
    IN  IF "DEFAULT_SQLITE_PATH" \notin DatabaseConfig_class_attrs
        THEN [exc |-> "AttributeError", c |-> NoConnection]
        ELSE built(SQLiteConnection_connect(NewConnection, o))

\* _create_mariadb_connection: the connection when connect() succeeds, None
\* when it fails or anything raises
DatabaseConnectionFactory_create_mariadb_connection(o) ==
    LET built(c) ==
            IF c.exc = "none" /\ c.r
            THEN [exc |-> "none", c |-> [kind |-> "MariaDBConnection", connectAttempted |-> TRUE, d |-> c.d]]
            ELSE [exc |-> "none", c |-> NoConnection]
    IN  built(SQLiteConnection_connect(NewConnection, o))

\* create_connection for the active type db_type; om, os and ot are the
\* outcomes of the MariaDB connect, the SQLite connect and the CREATE TABLEs
DatabaseConnectionFactory_create_connection(db_type, om, os, ot) ==
    LET initialized(first, t) ==
            [db_type |-> db_type, exc |-> t.exc,
             c |-> [first.c EXCEPT !.d = t.d], tables |-> create_tables_query]
        created(first) ==
            IF first.exc # "none"
            THEN [db_type |-> db_type, exc |-> first.exc, c |-> NoConnection, tables |-> <<>>]
            ELSE IF first.c.kind = "None"
            THEN [db_type |-> db_type, exc |-> "none", c |-> NoConnection, tables |-> <<>>]
            ELSE initialized(first, SQLiteConnection_create_tables(first.c.d, PyList(create_tables_query), ot))
        fallback(maria) ==
            IF maria.c.kind # "None" THEN created(maria)
            ELSE created(DatabaseConnectionFactory_create_sqlite_connection(os))
    IN  IF db_type = "mariadb"
        THEN fallback(DatabaseConnectionFactory_create_mariadb_connection(om))
        ELSE created(DatabaseConnectionFactory_create_sqlite_connection(os))

(***************************************************************************)
(* MainController (controller/main_controller.py).  The controller's       *)
(* connection objects are the entries of conns; db_connection,             *)
(* product_manager_db and customer_manager_db say which object the         *)
(* controller and each manager refer to (0: None).  listWidget holds the   *)
(* entries of the product view's list widget, shown says whether start()   *)
(* has shown the main window.                                              *)
(***************************************************************************)
\* the connection objects one run of the controller creates
MaxConns == 2

\* before MainController() has returned there is no controller
NoController ==
    [phase |-> "none", db_connection |-> 0, product_manager_db |-> 0, customer_manager_db |-> 0,
     conns |-> <<>>, listWidget |-> <<>>, shown |-> FALSE]

\* what the database a configuration names may hold when a connection to it
\* is opened
ExistingDatabases ==
    {[rows |-> [t \in Tables |-> <<>>], nextId |-> [t \in Tables |-> 1]],
     [rows |-> [products |-> <<[product_id |-> PyInt(1), name |-> PyStr("a"),
                               price |-> PyInt(1), quantity |-> PyInt(2)]>>,
                customers |-> <<>>],
      nextId |-> [products |-> 2, customers |-> 1]],
     [rows |-> [products |-> <<>>,
                customers |-> <<[customer_id |-> PyInt(1), name |-> PyStr("a"),
                                 address |-> PyStr("a"), email |-> PyStr("e@x.de"),
                                 phone |-> PyStr("1")]>>],
      nextId |-> [products |-> 1, customers |-> 2]]}

\* the connection object the factory returned, on the database store
Connected(made, store) ==
    [kind |-> made.c.kind, d |-> [made.c.d EXCEPT !.rows = store.rows, !.nextId = store.nextId]]

\* _initialize_database: the factory's connection becomes db_connection and
\* the test query is run on it; o is the outcome of the test query
MainController_initialize_database(c, db_type, om, os, ot, store, o) ==
    LET tested(obj, e) ==
            IF e.exc # "none" THEN [exc |-> e.exc, ctl |-> c]
            ELSE [exc |-> "none",
                  ctl |-> [c EXCEPT !.conns = Append(@, [obj EXCEPT !.d = e.d]),
                                    !.db_connection = Len(c.conns) + 1]]
        connected(obj) ==
            tested(obj, SQLiteConnection_execute_query(
                            NewCall(obj.d), [kind |-> "SELECT_1", table |-> "products"], o))
        created(made) ==
            IF made.exc # "none" THEN [exc |-> made.exc, ctl |-> c]
            ELSE IF made.c.kind = "None" THEN [exc |-> "AttributeError", ctl |-> c]
            ELSE connected(Connected(made, store))
    IN  created(DatabaseConnectionFactory_create_connection(db_type, om, os, ot))

\* MainController.__init__: the connection, then both managers on it; each
\* manager's constructor starts with an empty cache and calls load_all (o1
\* and o2 are the outcomes of the two SELECTs)
MainController_init(c, its, hp, db_type, om, os, ot, store, o, o1, o2) ==
    LET loaded(c3, its1, b2) ==
            [exc |-> "none",
             ctl |-> [c3 EXCEPT !.phase = "idle",
                                !.customer_manager_db = c3.db_connection,
                                !.conns[c3.db_connection].d = b2.d],
             items |-> [its1 EXCEPT !["CustomerManager"] = b2.items],
             heap |-> b2.heap]
        productsLoaded(c2, b1) ==
            loaded([c2 EXCEPT !.product_manager_db = c2.db_connection,
                             !.conns[c2.db_connection].d = b1.d],
                   [its EXCEPT !["ProductManager"] = b1.items],
                   BaseManager_load_all("CustomerManager", NewCall(b1.d), <<>>, b1.heap,
                                        RefsOf(b1.items), o2))
        built(i) ==
            IF i.exc # "none" THEN [exc |-> i.exc, ctl |-> i.ctl, items |-> its, heap |-> hp]
            ELSE productsLoaded(i.ctl,
                                BaseManager_load_all("ProductManager",
                                                     NewCall(i.ctl.conns[i.ctl.db_connection].d),
                                                     <<>>, hp, {}, o1))
    IN  built(MainController_initialize_database(c, db_type, om, os, ot, store, o))

\* the entry updateProductList adds for a product: the text
\* "ID: {id} | Name: {name} | Price: {price} | Quantity: {quantity}", kept as
\* its four formatted parts
ProductEntry(o) == [id |-> o.id, name |-> o.name, price |-> o.price, quantity |-> o.quantity]

\* ProductFormView.updateProductList: the list is cleared and gets one
\* entry per product, in order
ProductFormView_updateProductList(its, hp) == [i \in 1 .. Len(its) |-> ProductEntry(hp[its[i]])]

\* a _reconnect_database that hands the new connection to the product
\* manager only
MainController_reconnect_database_one_manager(c, its, hp, db_type, om, os, ot, store, o1, o2) ==
    LET loaded(c4, its1, b2) ==
            [exc |-> "none",
             ctl |-> [c4 EXCEPT !.conns[c4.db_connection].d = b2.d,
                                !.listWidget = ProductFormView_updateProductList(
                                                   its1["ProductManager"], b2.heap)],
             items |-> [its1 EXCEPT !["CustomerManager"] = b2.items],
             heap |-> b2.heap]
        productsLoaded(c3, b1) ==
            loaded([c3 EXCEPT !.conns[c3.db_connection].d = b1.d], [its EXCEPT !["ProductManager"] = b1.items],
                   BaseManager_load_all("CustomerManager", NewCall(b1.d),
                                        its["CustomerManager"], b1.heap, RefsOf(b1.items), o2))
        assigned(c2) ==
            productsLoaded([c2 EXCEPT !.product_manager_db = c2.db_connection],
                           BaseManager_load_all("ProductManager", NewCall(c2.conns[c2.db_connection].d),
                                                its["ProductManager"], hp,
                                                RefsOf(its["CustomerManager"]), o1))
        created(c1, made) ==
            IF made.exc # "none" THEN [exc |-> made.exc, ctl |-> c1, items |-> its, heap |-> hp]
            ELSE IF made.c.kind = "None"
            THEN [exc |-> "none",
                  ctl |-> [c1 EXCEPT !.db_connection = 0, !.product_manager_db = 0,
                                     !.customer_manager_db = 0],
                  items |-> its, heap |-> hp]
            ELSE assigned([c1 EXCEPT !.conns = Append(@, Connected(made, store)),
                                     !.db_connection = Len(c1.conns) + 1])
        disconnected(c1) ==
            created(c1, DatabaseConnectionFactory_create_connection(db_type, om, os, ot))
    IN  IF c.db_connection # 0
        THEN disconnected([c EXCEPT !.conns[c.db_connection].d = SQLiteConnection_disconnect(NewCall(@)).d])
        ELSE disconnected(c)

\* _reconnect_database: the old connection is disconnected, a new one is
\* created and given to both managers, each of which reloads its cache, and
\* the views are updated; o1 and o2 are the outcomes of the two SELECTs.  A None connection makes both
\* load_all calls fail in their try blocks
MainController_reconnect_database(c, its, hp, db_type, om, os, ot, store, o1, o2) ==
    LET loaded(c4, its1, b2) ==
            [exc |-> "none",
             ctl |-> [c4 EXCEPT !.conns[c4.db_connection].d = b2.d,
                                !.listWidget = ProductFormView_updateProductList(
                                                   its1["ProductManager"], b2.heap)],
             items |-> [its1 EXCEPT !["CustomerManager"] = b2.items],
             heap |-> b2.heap]
        productsLoaded(c3, b1) ==
            loaded([c3 EXCEPT !.customer_manager_db = c3.db_connection,
                             !.conns[c3.db_connection].d = b1.d], [its EXCEPT !["ProductManager"] = b1.items],
                   BaseManager_load_all("CustomerManager", NewCall(b1.d),
                                        its["CustomerManager"], b1.heap, RefsOf(b1.items), o2))
        assigned(c2) ==
            productsLoaded([c2 EXCEPT !.product_manager_db = c2.db_connection],
                           BaseManager_load_all("ProductManager", NewCall(c2.conns[c2.db_connection].d),
                                                its["ProductManager"], hp,
                                                RefsOf(its["CustomerManager"]), o1))
        created(c1, made) ==
            IF made.exc # "none" THEN [exc |-> made.exc, ctl |-> c1, items |-> its, heap |-> hp]
            ELSE IF made.c.kind = "None"
            THEN [exc |-> "none",
                  ctl |-> [c1 EXCEPT !.db_connection = 0, !.product_manager_db = 0,
                                     !.customer_manager_db = 0],
                  items |-> its, heap |-> hp]
            ELSE assigned([c1 EXCEPT !.conns = Append(@, Connected(made, store)),
                                     !.db_connection = Len(c1.conns) + 1])
        disconnected(c1) ==
            created(c1, DatabaseConnectionFactory_create_connection(db_type, om, os, ot))
    IN  IF c.db_connection # 0
        THEN disconnected([c EXCEPT !.conns[c.db_connection].d = SQLiteConnection_disconnect(NewCall(@)).d])
        ELSE disconnected(c)

(***************************************************************************)
(* State.                                                                  *)
(***************************************************************************)
VARIABLES
    db,        \* the connection the managers share, and the database behind it
    items,     \* items[m]: the cache _items of manager m, as references
    heap,      \* the objects the caches refer to
    last,      \* the last call: operation, arguments and result
    clean,     \* so far only add(fresh valid Product), remove and load_all
               \* were called on the ProductManager and every database call worked
    faults,    \* the database calls the environment has made fail so far
    ctl        \* the MainController: its connection objects and who refers to which

vars == <<db, items, heap, last, clean, faults, ctl>>

\* the values a client passes as names, prices, quantities and ids
RawNames == {PyStr(""), PyStr("a")}
RawPrices == {PyInt(1), PyStr("1,0"), PyStr("x"), PyInt(-1), PyNone}
RawQuantities == {PyInt(2), PyInt(-1), PyNone}
RawIds == {PyNone, PyInt(1)}

\* the Product objects a client can construct
ConstructedProducts ==
    {Product_init(x[1], x[2], x[3], x[4]).o : x \in
        {y \in RawNames \X RawPrices \X RawQuantities \X RawIds :
            Product_init(y[1], y[2], y[3], y[4]).exc = "none"}}

\* Product objects after one assignment to a public attribute
AssignedProducts ==
    LET fresh == {o \in ConstructedProducts : o.id = PyNone}
    IN  {[o EXCEPT !.price = PyInt(-1)] : o \in fresh}
        \cup {[o EXCEPT !.name = PyStr("")] : o \in fresh}

\* the Customer objects a client can construct
ConstructedCustomers ==
    {Customer_init(k).o : k \in
        {kw \in [name : RawNames, address : RawNames, email : {PyStr("e@x.de"), PyStr("x")},
                 phone : {PyStr("1")}] : Customer_init(kw).exc = "none"}}

\* a value that is no model object
NotAModel == [cls |-> "str"]

\* name non-empty, price >= 0 and quantity >= 0
ValidProduct(o) ==
    /\ o.cls = "Product"
    /\ Truthy(o.name)
    /\ o.price.t \in {"int", "float"} /\ NumOf(o.price) >= 0
    /\ o.quantity.t \in {"int", "float"} /\ NumOf(o.quantity) >= 0

\* the items a client may pass to add: objects it holds, or cached objects
AddArguments ==
    {[obj |-> o, ref |-> 0] : o \in ConstructedProducts \cup AssignedProducts
                                     \cup ConstructedCustomers \cup {NotAModel}}
    \cup {[obj |-> heap[r], ref |-> r] : r \in DOMAIN heap}

\* outcome vectors of n database calls: after a call that did not work the
\* later ones are not reached
OutcomeVectors(n) ==
    {os \in [1 .. n -> Outcomes] : \A i \in 1 .. n : os[i] # "ok" => \A j \in (i + 1) .. n : os[j] = "ok"}

AllOk(os) == \A i \in DOMAIN os : os[i] = "ok"

\* the environment may make a call fail while the budget lasts
Fault(os) ==
    /\ ~AllOk(os) => faults < MaxFaults
    /\ faults' = IF AllOk(os) THEN faults ELSE faults + 1

\* the references the caches hold
Cached(its) == UNION {RefsOf(its[m]) : m \in Managers}

\* what last.made holds when the last call was not create_connection
NotMade == [db_type |-> "sqlite", exc |-> "none", c |-> NoConnection, tables |-> <<>>]

\* the record of a call: the operation, the manager, the class of the item
\* passed to add and its reference when it was cached, the id passed to
\* remove or get_by_id, the result, the exception that left the call, and
\* whether every database call of it worked
Call(op, m, cls, ref, id, ret, exc, ok) ==
    [op |-> op, m |-> m, cls |-> cls, ref |-> ref, id |-> id, ret |-> ret, exc |-> exc,
     ok |-> ok, made |-> NotMade]

Init ==
    /\ db = [NewConnection EXCEPT !.conn = "open"]
    /\ items = [m \in Managers |-> <<>>]
    /\ heap = Restrict(<<>>, {})
    /\ last = Call("init", "ProductManager", "None", 0, PyNone, PyNone, "none", TRUE)
    /\ clean = TRUE
    /\ faults = 0
    /\ ctl = NoController

\* the managers on a connection object that may never have been connected,
\* or on an open connection to a database whose products table is empty (the
\* caches are what the managers' constructors loaded: nothing)
InitStartup ==
    /\ db \in {[NewConnection EXCEPT !.conn = c] : c \in {"none", "open"}}
              \cup {[NewConnection EXCEPT !.conn = "open", !.rows = s.rows, !.nextId = s.nextId] :
                        s \in {e \in ExistingDatabases : e.rows["products"] = <<>>}}
    /\ items = [m \in Managers |-> <<>>]
    /\ heap = Restrict(<<>>, {})
    /\ last = Call("init", "ProductManager", "None", 0, PyNone, PyNone, "none", TRUE)
    /\ clean = TRUE
    /\ faults = 0
    /\ ctl = NoController

(***************************************************************************)
(* Actions: one per call a client makes.                                   *)
(***************************************************************************)
Add(m, arg, os) ==
    LET result(b) ==
            /\ db' = b.d
            /\ items' = [items EXCEPT ![m] = b.items]
            /\ heap' = b.heap
            /\ last' = Call("add", m, arg.obj.cls, arg.ref, PyNone, PyBool(b.ret), b.exc,
                            AllOk(os) /\ db.conn # "closed")
    IN  /\ db.nextId[get_table_name(m)] <= MaxId
        /\ arg.obj.cls # model_class(m) => AllOk(os)
        /\ Fault(os)
        /\ result(BaseManager_add(m, NewCall(db), items[m], heap, arg, os))
        /\ clean' = (clean /\ m = "ProductManager" /\ arg.ref = 0 /\ ValidProduct(arg.obj)
                     /\ AllOk(os) /\ db.conn # "closed")
        /\ UNCHANGED ctl

Remove(m, id, os) ==
    LET evicted(b, its) ==
            /\ db' = b.d
            /\ items' = its
            /\ heap' = Restrict(b.heap, Cached(its))
            /\ last' = Call("remove", m, "None", 0, id, PyBool(b.ret), b.exc,
                            AllOk(os) /\ db.conn # "closed")
        result(b) == evicted(b, [items EXCEPT ![m] = b.items])
    IN  /\ Fault(os)
        /\ result(BaseManager_remove(m, NewCall(db), items[m], heap, id, os))
        /\ clean' = (clean /\ m = "ProductManager" /\ AllOk(os) /\ db.conn # "closed")
        /\ UNCHANGED ctl

LoadAll(m, o) ==
    LET others == UNION {RefsOf(items[n]) : n \in Managers \ {m}}
        result(b) ==
            /\ db' = b.d
            /\ items' = [items EXCEPT ![m] = b.items]
            /\ heap' = b.heap
            /\ last' = Call("load_all", m, "None", 0, PyNone, PyBool(b.ret), b.exc,
                            o = "ok" /\ db.conn # "closed")
    IN  /\ Fault(<<o>>)
        /\ result(BaseManager_load_all(m, NewCall(db), items[m], heap, others, o))
        /\ clean' = (clean /\ m = "ProductManager" /\ o = "ok" /\ db.conn # "closed")
        /\ UNCHANGED ctl

GetById(m, id, o) ==
    LET result(b) ==
            /\ db' = b.d
            /\ last' = Call("get_by_id", m, "None", 0, id, b.ret, b.exc, o = "ok" /\ db.conn # "closed")
    IN  /\ Fault(<<o>>)
        /\ result(BaseManager_get_by_id(m, NewCall(db), id, o))
        /\ clean' = FALSE
        /\ UNCHANGED <<items, heap, ctl>>

Disconnect ==
    LET result(r) ==
            /\ db' = NewCall(r.d)
            /\ last' = Call("disconnect", "ProductManager", "None", 0, PyNone, PyBool(r.r), "none", r.r)
    IN  /\ result(SQLiteConnection_disconnect(db))
        /\ clean' = FALSE
        /\ UNCHANGED <<items, heap, faults, ctl>>

\* create_connection: what the factory hands back is kept in last.made; the
\* managers keep the connection they were built with
CreateConnection(db_type, om, os, ot) ==
    /\ db_type # "mariadb" => om = "ok"
    /\ last' = [Call("create_connection", "ProductManager", "None", 0, PyNone, PyNone, "none", TRUE)
                  EXCEPT !.made = DatabaseConnectionFactory_create_connection(db_type, om, os, ot)]
    /\ UNCHANGED <<db, items, heap, clean, faults, ctl>>

\* the arguments a client passes to create_tables
TableQueries == {PyNone, PyList(<<>>), PyList(create_tables_query)}

\* create_tables called on the connection
CreateTables(queries, os) ==
    LET result(t) ==
            /\ db' = t.d
            /\ last' = [Call("create_tables", "ProductManager", "None", 0, PyNone,
                             IF t.exc = "none" THEN PyBool(t.r) ELSE PyNone, t.exc,
                             AllOk(os) /\ db.conn # "closed")
                          EXCEPT !.made.tables = IF queries.t = "list" THEN queries.l ELSE <<>>]
    IN  /\ ~Truthy(queries) => AllOk(os)
        /\ Fault(os)
        /\ result(SQLiteConnection_create_tables(NewCall(db), queries, os))
        /\ clean' = FALSE
        /\ UNCHANGED <<items, heap, ctl>>

\* the connection object the product manager uses
ProductManagerDb(c) == c.conns[c.product_manager_db].d

\* start(): the views are filled from the caches and the window is shown
MainController_start(c, its, hp) ==
    [c EXCEPT !.shown = TRUE,
              !.listWidget = ProductFormView_updateProductList(its["ProductManager"], hp)]

\* _add_product with the texts of the three input fields; os are the
\* outcomes of add's database calls.  The list is updated only when add
\* returned True; a ValueError of int() or of Product() is caught
MainController_add_product(c, its, hp, name, price, quantity, os) ==
    LET same == [exc |-> "none", ctl |-> c, items |-> its, heap |-> hp]
        added(b) ==
            [exc |-> "none",
             ctl |-> [c EXCEPT !.conns[c.product_manager_db].d = b.d,
                               !.listWidget = IF b.ret
                                              THEN ProductFormView_updateProductList(b.items, b.heap)
                                              ELSE @],
             items |-> [its EXCEPT !["ProductManager"] = b.items],
             heap |-> b.heap]
        constructed(p) ==
            IF p.exc = "ValueError" THEN same
            ELSE IF p.exc # "none" THEN [same EXCEPT !.exc = p.exc]
            ELSE added(BaseManager_add("ProductManager", NewCall(ProductManagerDb(c)),
                                       its["ProductManager"], hp, [obj |-> p.o, ref |-> 0], os))
        parsed(q) ==
            IF q.exc = "ValueError" THEN same
            ELSE IF q.exc # "none" THEN [same EXCEPT !.exc = q.exc]
            ELSE constructed(Product_init(name, price, q.v, PyNone))
    IN  IF ~Truthy(name) \/ ~Truthy(price) \/ ~Truthy(quantity) THEN same
        ELSE parsed(PyIntOf(quantity))

\* listWidget.takeItem(row): the list without its entry at position p
TakeItem(w, p) == [i \in 1 .. Len(w) - 1 |-> IF i < p THEN w[i] ELSE w[i + 1]]

\* int(item.text().split(' | ')[0].split(' ')[1]): the id the entry's text
\* starts with; the text of a product without id reads "ID: None"
SelectedId(e) ==
    IF e.id.t = "int" THEN [exc |-> "none", v |-> e.id] ELSE [exc |-> "ValueError", v |-> PyNone]

\* the loop of _remove_product over the selected entries: sel are their
\* positions in the list before the loop, ascending, k of them are taken
\* already, oss are the outcomes of each remove's database calls.  The
\* entry is taken from the list first, then remove is called with its id
RECURSIVE RemoveSelected(_, _, _, _, _, _)
RemoveSelected(c, its, hp, sel, oss, k) ==
    LET next(c1, its1, hp1) ==
            RemoveSelected(c1, its1, Restrict(hp1, UNION {RefsOf(its1[m]) : m \in Managers}),
                           Tail(sel), Tail(oss), k + 1)
        removed(c1, b) ==
            next([c1 EXCEPT !.conns[c1.product_manager_db].d = b.d],
                 [its EXCEPT !["ProductManager"] = b.items], b.heap)
        parsed(c1, id) ==
            IF id.exc # "none" THEN next(c1, its, hp)
            ELSE removed(c1, BaseManager_remove("ProductManager", NewCall(ProductManagerDb(c1)),
                                                its["ProductManager"], hp, id.v, Head(oss)))
        taken(e, c1) == parsed(c1, SelectedId(e))
    IN  IF sel = <<>> THEN [exc |-> "none", ctl |-> c, items |-> its, heap |-> hp]
        ELSE taken(c.listWidget[Head(sel) - k], [c EXCEPT !.listWidget = TakeItem(@, Head(sel) - k)])

\* the members of a set of positions in ascending order
RECURSIVE Ascending(_)
Ascending(S) ==
    IF S = {} THEN <<>>
    ELSE LET least == CHOOSE x \in S : \A y \in S : x <= y
         IN  <<least>> \o Ascending(S \ {least})

\* _remove_product with the entries at the positions sel selected
MainController_remove_product(c, its, hp, sel, oss) ==
    RemoveSelected(c, its, hp, Ascending(sel), oss, 0)

\* the inputs of a step that connects: a call that is not reached has the
\* outcome "ok", and a database that is not connected to is the first one.
\* later are the outcomes of the calls made on the new connection
ConnectionInputs(db_type, om, os, ot, store, later) ==
    LET sqliteReached ==
            (db_type # "mariadb" \/ om # "ok") /\ "DEFAULT_SQLITE_PATH" \in DatabaseConfig_class_attrs
        tablesReached ==
            (db_type = "mariadb" /\ om = "ok") \/ (sqliteReached /\ os # "raise")
        connected(made) == made.exc = "none" /\ made.c.kind # "None"
        unused(isConnected) ==
            ~isConnected =>
                /\ AllOk(later)
                /\ store = [rows |-> [t \in Tables |-> <<>>], nextId |-> [t \in Tables |-> 1]]
    IN  /\ db_type # "mariadb" => om = "ok"
        /\ ~sqliteReached => os = "ok"
        /\ ~tablesReached => AllOk(ot)
        /\ unused(connected(DatabaseConnectionFactory_create_connection(db_type, om, os, ot)))

\* the configured type, the outcomes of the factory's calls and the
\* database behind the new connection, for a step that connects
ConnectionChoices ==
    {x \in [db_type : {"sqlite", "mariadb"}, om : Outcomes, os : Outcomes,
            ot : OutcomeVectors(3), store : ExistingDatabases] :
        ConnectionInputs(x.db_type, x.om, x.os, x.ot, x.store, <<>>)}

\* the user starts the application: MainController()
ControllerInit(db_type, om, os, ot, store, o, o1, o2) ==
    LET result(i) ==
            /\ ctl' = i.ctl
            /\ items' = i.items
            /\ heap' = i.heap
            /\ last' = Call("__init__", "ProductManager", "None", 0, PyNone, PyNone, i.exc,
                            AllOk(<<om, os, o, o1, o2>>) /\ AllOk(ot))
    IN  /\ ctl.phase = "none"
        /\ ConnectionInputs(db_type, om, os, ot, store, <<o, o1, o2>>)
        /\ Fault(<<om, os, o, o1, o2>> \o ot)
        /\ result(MainController_init(ctl, items, heap, db_type, om, os, ot, store, o, o1, o2))
        /\ clean' = FALSE
        /\ UNCHANGED db

\* the user accepts the database settings dialog: _reconnect_database
ReconnectDatabase(db_type, om, os, ot, store, o1, o2) ==
    LET result(r) ==
            /\ ctl' = r.ctl
            /\ items' = r.items
            /\ heap' = r.heap
            /\ last' = Call("_reconnect_database", "ProductManager", "None", 0, PyNone, PyNone, r.exc,
                            AllOk(<<om, os, o1, o2>>) /\ AllOk(ot))
    IN  /\ ctl.phase = "idle" /\ ctl.shown
        /\ Len(ctl.conns) < MaxConns
        /\ ConnectionInputs(db_type, om, os, ot, store, <<o1, o2>>)
        /\ Fault(<<om, os, o1, o2>> \o ot)
        /\ result(MainController_reconnect_database(ctl, items, heap, db_type, om, os, ot, store, o1, o2))
        /\ clean' = FALSE
        /\ UNCHANGED db

\* main() calls start() once the controller is built
Start ==
    /\ ctl.phase = "idle" /\ ~ctl.shown
    /\ ctl' = MainController_start(ctl, items, heap)
    /\ last' = Call("start", "ProductManager", "None", 0, PyNone, PyNone, "none", TRUE)
    /\ clean' = FALSE
    /\ UNCHANGED <<db, items, heap, faults>>

\* the texts the user types into the price and quantity fields
PriceTexts == {PyStr(""), PyStr("1,0"), PyStr("x")}
QuantityTexts == {PyStr(""), PyStr("2"), PyStr("x")}

\* the user presses the product view's submit button: _add_product
AddProduct(name, price, quantity, os) ==
    LET result(r) ==
            /\ ctl' = r.ctl
            /\ items' = r.items
            /\ heap' = r.heap
            /\ last' = Call("_add_product", "ProductManager", "Product", 0, PyNone, PyNone, r.exc,
                            AllOk(os) /\ ProductManagerDb(ctl).conn # "closed")
    IN  /\ ctl.phase = "idle" /\ ctl.shown
        /\ ctl.product_manager_db # 0
        /\ ProductManagerDb(ctl).nextId["products"] <= MaxId
        /\ \E r \in Refs : r \notin DOMAIN heap
        /\ (~Truthy(name) \/ ~Truthy(price) \/ quantity # PyStr("2") \/ price # PyStr("1,0")) => AllOk(os)
        /\ Fault(os)
        /\ result(MainController_add_product(ctl, items, heap, name, price, quantity, os))
        /\ clean' = FALSE
        /\ UNCHANGED db

\* the outcomes of the database calls of several calls, one after another
RECURSIVE Concat(_)
Concat(ss) == IF ss = <<>> THEN <<>> ELSE Head(ss) \o Concat(Tail(ss))

\* the user presses the delete button with the entries at sel selected
RemoveProduct(sel, oss) ==
    LET result(r) ==
            /\ ctl' = r.ctl
            /\ items' = r.items
            /\ heap' = r.heap
            /\ last' = Call("_remove_product", "ProductManager", "None", 0, PyNone, PyNone, r.exc,
                            AllOk(Concat(oss)) /\ ProductManagerDb(ctl).conn # "closed")
    IN  /\ ctl.phase = "idle" /\ ctl.shown
        /\ ctl.product_manager_db # 0
        /\ Fault(Concat(oss))
        /\ result(MainController_remove_product(ctl, items, heap, sel, oss))
        /\ clean' = FALSE
        /\ UNCHANGED db

\* the ids a client passes to remove and get_by_id
IdArguments == {PyInt(i) : i \in 1 .. MaxId} \cup {PyNone}

\* the ProductManager in use
Next ==
    \/ \E arg \in AddArguments, os \in OutcomeVectors(3) : Add("ProductManager", arg, os)
    \/ \E id \in IdArguments, os \in OutcomeVectors(2) : Remove("ProductManager", id, os)
    \/ \E o \in Outcomes : LoadAll("ProductManager", o)
    \/ \E id \in IdArguments, o \in Outcomes : GetById("ProductManager", id, o)

Spec == Init /\ [][Next]_vars

\* start-up: the factory, the connection and the CustomerManager
NextStartup ==
    \/ \E t \in {"sqlite", "mariadb"}, om \in Outcomes, os \in Outcomes, ot \in OutcomeVectors(3) :
          CreateConnection(t, om, os, ot)
    \/ Disconnect
    \/ \E q \in TableQueries, os \in OutcomeVectors(3) : CreateTables(q, os)
    \/ \E arg \in AddArguments, os \in OutcomeVectors(3) : Add("CustomerManager", arg, os)
    \/ \E id \in IdArguments, os \in OutcomeVectors(2) : Remove("CustomerManager", id, os)
    \/ \E o \in Outcomes : LoadAll("CustomerManager", o)
    \/ \E id \in IdArguments, o \in Outcomes : GetById("CustomerManager", id, o)

SpecStartup == InitStartup /\ [][NextStartup]_vars

\* the controller: start-up and reconnects
NextController ==
    \/ \E x \in ConnectionChoices, o \in Outcomes, o1 \in Outcomes, o2 \in Outcomes :
          ControllerInit(x.db_type, x.om, x.os, x.ot, x.store, o, o1, o2)
    \/ \E x \in ConnectionChoices, o1 \in Outcomes, o2 \in Outcomes :
          ReconnectDatabase(x.db_type, x.om, x.os, x.ot, x.store, o1, o2)
    \/ Start

SpecController == Init /\ [][NextController]_vars

\* the controller with the product view's handlers
NextView ==
    \/ \E x \in ConnectionChoices, o \in Outcomes, o1 \in Outcomes, o2 \in Outcomes :
          ControllerInit(x.db_type, x.om, x.os, x.ot, x.store, o, o1, o2)
    \/ \E x \in ConnectionChoices, o1 \in Outcomes, o2 \in Outcomes :
          ReconnectDatabase(x.db_type, x.om, x.os, x.ot, x.store, o1, o2)
    \/ Start
    \/ \E name \in RawNames, price \in PriceTexts, quantity \in QuantityTexts, os \in OutcomeVectors(3) :
          AddProduct(name, price, quantity, os)
    \/ \E sel \in SUBSET (1 .. Len(ctl.listWidget)) :
          \E oss \in [1 .. Cardinality(sel) -> OutcomeVectors(2)] : RemoveProduct(sel, oss)

SpecView == Init /\ [][NextView]_vars

(***************************************************************************)
(* Properties.                                                             *)
(***************************************************************************)
\* the objects a cache holds, in order
Objs(its, hp) == [i \in 1 .. Len(its) |-> hp[its[i]]]

\* two database or attribute values denote the same value
SameValue(a, b) ==
    \/ a = b
    \/ a.t \in {"int", "float"} /\ b.t \in {"int", "float"} /\ NumOf(a) = NumOf(b)

\* a products row whose name is non-empty, price >= 0 and quantity >= 0
RowValid(row) ==
    /\ Truthy(row.name)
    /\ row.price.t \in {"int", "float"} /\ NumOf(row.price) >= 0
    /\ row.quantity.t \in {"int", "float"} /\ NumOf(row.quantity) >= 0

\* the Product that stands for a products row
RowProduct(row) ==
    [cls |-> "Product", id |-> row.product_id, name |-> row.name,
     price |-> PyFloat(NumOf(row.price)), quantity |-> PyInt(NumOf(row.quantity))]

\* C1: after any sequence of add (fresh valid Product), remove and load_all
\* calls in which every database call succeeds, the ids of the cached items
\* are exactly the product_id values of the rows of the products table
C1_CacheIdsEqualTableIds ==
    clean =>
        {heap[r].id : r \in RefsOf(items["ProductManager"])}
            = {db.rows["products"][i].product_id : i \in 1 .. Len(db.rows["products"])}

\* C1 witness: two products were added, one was removed, and the cache was
\* reloaded, all without a failure
C1_Witness ==
    /\ clean
    /\ last.op = "load_all"
    /\ db.nextId["products"] = 3
    /\ Len(db.rows["products"]) = 1
    /\ Len(items["ProductManager"]) = 1

C2_Step ==
    (last'.op = "add" /\ last'.ret = PyBool(TRUE)) =>
        LET m == last'.m
            t == get_table_name(m)
            mapping == model_to_db_mapping(m)
            old == db.rows[t]
            new == db'.rows[t]
            before == items[m]
            after == items'[m]
        IN  /\ Len(new) = Len(old) + 1
            /\ SubSeq(new, 1, Len(old)) = old
            /\ Len(after) = Len(before) + 1
            /\ SubSeq(after, 1, Len(before)) = before
            /\ last'.ref # 0 => after[Len(after)] = last'.ref
            /\ LET row == new[Len(new)]
                   item == heap'[after[Len(after)]]
               IN  /\ DOMAIN row = {IdColumn(t)} \cup {mapping[a] : a \in DOMAIN mapping}
                   /\ \A a \in DOMAIN mapping : SameValue(row[mapping[a]], item[a])
                   /\ row[IdColumn(t)] = PyInt(db.nextId[t])
                   /\ item.id = row[IdColumn(t)]
            /\ \A i \in 1 .. Len(before) : heap'[before[i]] = heap[before[i]]

\* C2: when add returns True, exactly one row holding the item's mapped
\* attribute values was inserted, the item's id is the id the database
\* generated for that row, and the item is the new last element of the
\* cache, every earlier element being unchanged
C2_AddPostcondition == [][C2_Step]_vars

C3_Step ==
    (last'.op = "remove" /\ last'.ret = PyBool(TRUE)) =>
        LET m == last'.m
            t == get_table_name(m)
            others(o) == o.id # last'.id
        IN  /\ \A i \in 1 .. Len(db'.rows[t]) : db'.rows[t][i][IdColumn(t)] # last'.id
            /\ \A i \in 1 .. Len(items'[m]) : heap'[items'[m][i]].id # last'.id
            /\ Objs(items'[m], heap') = SelectSeq(Objs(items[m], heap), others)

\* C3: when remove(id) returns True, the table holds no row with that id,
\* the cache holds no item with that id, and every other cached item is
\* still cached, in its previous relative order
C3_RemovePostcondition == [][C3_Step]_vars

\* C3 witness: remove(1) returned True, and of the two products added the
\* other one is still cached
C3_Witness ==
    /\ last.op = "remove" /\ last.ret = PyBool(TRUE) /\ last.id = PyInt(1)
    /\ db.nextId["products"] = 3
    /\ Len(items["ProductManager"]) = 1
    /\ heap[items["ProductManager"][1]].id = PyInt(2)

C4_Step ==
    (last'.op = "load_all" /\ last'.ret = PyBool(TRUE) /\ last'.m = "ProductManager") =>
        LET rows == db.rows["products"]
            valid == SelectSeq(rows, RowValid)
        IN  /\ db'.rows = db.rows
            /\ Objs(items'["ProductManager"], heap') = [i \in 1 .. Len(valid) |-> RowProduct(valid[i])]
            /\ \A i \in 1 .. Len(items'["ProductManager"]) :
                  \E j \in 1 .. Len(rows) : heap'[items'["ProductManager"][i]].id = rows[j].product_id

\* C4: when load_all returns True, the cache holds exactly one object per
\* row of the table, in row order, omitting only the rows whose values fail
\* validation, and nothing cached before survives without its row
C4_LoadAllPostcondition == [][C4_Step]_vars

\* C4 witness: load_all returned True over two rows, one of which fails
\* validation and is omitted
C4_Witness ==
    /\ last.op = "load_all" /\ last.ret = PyBool(TRUE)
    /\ Len(db.rows["products"]) = 2
    /\ Len(items["ProductManager"]) = 1

C5_Step ==
    (last'.op = "add" /\ last'.m = "CustomerManager" /\ last'.cls = "Customer" /\ last'.ok) =>
        /\ last'.ret = PyBool(TRUE)
        /\ Len(db'.rows["customers"]) = Len(db.rows["customers"]) + 1
        /\ Len(items'["CustomerManager"]) = Len(items["CustomerManager"]) + 1
        /\ "id" \in DOMAIN heap'[items'["CustomerManager"][Len(items'["CustomerManager"])]]
        /\ heap'[items'["CustomerManager"][Len(items'["CustomerManager"])]].id
              = PyInt(db.nextId["customers"])

\* C5: CustomerManager.add of a Customer with non-empty name and address
\* and a well-formed email on a working connection returns True, inserts one
\* customers row and appends the customer, carrying the generated id
C5_CustomerAdd == [][C5_Step]_vars

\* C6: add, remove and load_all return a boolean, get_by_id returns a model
\* object or None, and no exception leaves a manager operation, whatever the
\* argument and the outcome of the database calls
C6_NoExceptionEscapes ==
    /\ last.exc = "none"
    /\ last.op \in {"add", "remove", "load_all"} => last.ret.t = "bool"
    /\ last.op = "get_by_id" => last.ret.t \in {"obj", "None"}

\* C6 witness: the adapter raised inside get_by_id (a call failed and left
\* no error message), and get_by_id returned None
C6_Witness ==
    /\ last.op = "get_by_id" /\ ~last.ok /\ faults = 1
    /\ db.error = PyNone
    /\ last.ret = PyNone

C7_Step ==
    (last'.op \in {"add", "remove"} /\ last'.ret = PyBool(FALSE)) =>
        /\ items'[last'.m] = items[last'.m]
        /\ Objs(items'[last'.m], heap') = Objs(items[last'.m], heap)

\* C7: whenever add or remove returns False, the cache is exactly what it
\* was before the call
C7_FailureLeavesCache == [][C7_Step]_vars

\* C7 witness: a remove whose statement failed returned False while a
\* product was cached
C7_Witness ==
    /\ last.op = "remove" /\ last.ret = PyBool(FALSE) /\ ~last.ok
    /\ last.id = PyInt(1)
    /\ Len(items["ProductManager"]) = 1
    /\ heap[items["ProductManager"][1]].id = PyInt(1)

\* the statements each operation may issue
StatementsOf(op) ==
    CASE op = "add" -> {"INSERT", "LAST_ID"}
      [] op = "remove" -> {"DELETE"}
      [] op = "load_all" -> {"SELECT_ALL"}
      [] op = "get_by_id" -> {"SELECT_ONE"}
      [] OTHER -> {}

\* C8: a call of add, remove, load_all or get_by_id issues each of its
\* statements at most once, and a statement that failed is followed by no
\* other statement of the call
C8_StatementsIssuedOnce ==
    \A i \in 1 .. Len(db.stmts) :
        /\ db.stmts[i].kind \in StatementsOf(last.op)
        /\ \A j \in 1 .. Len(db.stmts) : i # j => db.stmts[i].kind # db.stmts[j].kind
        /\ ~db.stmts[i].ok => i = Len(db.stmts)

\* C8 witness: the INSERT of an add failed, and nothing was issued after it
C8_Witness ==
    /\ last.op = "add" /\ last.ret = PyBool(FALSE)
    /\ db.stmts = <<[kind |-> "INSERT", ok |-> FALSE]>>

\* C9: every row written through the ProductManager and every cached
\* Product has a non-empty name, a price >= 0 and a quantity >= 0
C9_FieldConstraints ==
    /\ \A i \in 1 .. Len(db.rows["products"]) : RowValid(db.rows["products"][i])
    /\ \A i \in 1 .. Len(items["ProductManager"]) : ValidProduct(heap[items["ProductManager"][i]])

\* C10: create_connection with an active type other than 'mariadb' returns
\* a SQLiteConnection on which connect() was attempted and create_tables
\* was run with the products and customers CREATE TABLE statements
C10_SqliteConnectionCreated ==
    (last.op = "create_connection" /\ last.made.db_type # "mariadb") =>
        /\ last.made.exc = "none"
        /\ last.made.c.kind = "SQLiteConnection"
        /\ last.made.c.connectAttempted
        /\ last.made.tables = create_tables_query

\* C11: create_connection with active type 'mariadb' whose MariaDB connect
\* fails falls back to SQLite: it does not raise and returns a
\* SQLiteConnection, never None
C11_MariaDBFallsBackToSqlite ==
    (/\ last.op = "create_connection"
     /\ last.made.db_type = "mariadb"
     /\ last.made.c.kind # "MariaDBConnection") =>
        /\ last.made.exc = "none"
        /\ last.made.c.kind = "SQLiteConnection"

\* C20: create_tables given None or an empty list returns True and issues
\* nothing; otherwise it issues the statements in order up to the first that
\* fails, then calls rollback and returns False; when every statement worked
\* it calls commit once, after the last statement, and returns True
C20_CreateTables ==
    (last.op = "create_tables" /\ last.exc = "none") =>
        LET q == last.made.tables
            s == db.stmts
            t == db.txn
        IN  IF q = <<>>
            THEN last.ret = PyBool(TRUE) /\ s = <<>> /\ t = <<>>
            ELSE /\ Len(s) <= Len(q)
                 /\ \A i \in 1 .. Len(s) :
                       /\ s[i].kind = "CREATE" /\ s[i].table = q[i].table
                       /\ ~s[i].ok => i = Len(s)
                 /\ Len(t) = 1 /\ t[1].after = Len(s)
                 /\ IF Len(s) = Len(q) /\ s[Len(s)].ok
                    THEN last.ret = PyBool(TRUE) /\ t[1].kind = "commit"
                    ELSE last.ret = PyBool(FALSE) /\ t[1].kind = "rollback"

\* C20 witness: the first of two statements failed, the second was not
\* issued, and rollback was called
C20_Witness ==
    /\ last.op = "create_tables" /\ last.ret = PyBool(FALSE)
    /\ Len(last.made.tables) = 2
    /\ db.stmts = <<[kind |-> "CREATE", ok |-> FALSE, table |-> "products"]>>
    /\ Len(db.txn) = 1 /\ db.txn[1].kind = "rollback"

\* C13: load_all returns True whenever its SELECT succeeded, the empty table
\* included, whatever failed earlier on the connection
C13_LoadAllTrueWhenSelectSucceeds ==
    (last.op = "load_all" /\ db.stmts = <<[kind |-> "SELECT_ALL", ok |-> TRUE]>>) =>
        last.ret = PyBool(TRUE)

\* C14 (step): add and remove return True only when the commit worked; when
\* the statement ran but the commit failed they return False and leave the
\* cache as it was
C14_Step ==
    (last'.op \in {"add", "remove"} /\ Len(db'.txn) = 1) =>
        LET m == last'.m
        IN  /\ last'.ret = PyBool(TRUE) => db'.txn[1].ok
            /\ ~db'.txn[1].ok =>
                  /\ last'.ret = PyBool(FALSE)
                  /\ items'[m] = items[m]
                  /\ \A r \in RefsOf(items[m]) : heap'[r] = heap[r]

\* C14: add and remove return True only if the commit succeeded
C14_TrueOnlyAfterCommit == [][C14_Step]_vars

\* C15: no two entries of a manager's cache have the same id
C15_CachedIdsUnique ==
    \A m \in Managers : \A i, j \in 1 .. Len(items[m]) :
        i # j => heap[items[m][i]].id # heap[items[m][j]].id

\* C16 (step): when the SELECT of load_all failed (fetch_all returned None
\* and the connection's error is set), load_all returns False and the cache
\* is empty
C16_Step ==
    (/\ last'.op = "load_all" /\ last'.exc = "none"
     /\ \/ db'.stmts = <<[kind |-> "SELECT_ALL", ok |-> FALSE]>>
        \/ db'.stmts = <<>> /\ db.conn = "none"
     /\ db'.error # PyNone) =>
        /\ last'.ret = PyBool(FALSE)
        /\ items'[last'.m] = <<>>

\* C16: a load_all whose SELECT failed returns False and discards the cache
C16_FailedLoadEmptiesCache == [][C16_Step]_vars

\* C16 witness: a load_all whose SELECT failed found a product cached
C16_Witness ==
    /\ last.op = "load_all" /\ last.ret = PyBool(FALSE)
    /\ db.stmts = <<[kind |-> "SELECT_ALL", ok |-> FALSE]>>
    /\ Len(db.rows["products"]) = 1
    /\ items["ProductManager"] = <<>>

\* C18 (step): a remove whose statement and commit worked, called with an
\* id that no row of the table has, returns True and leaves the table and
\* the cache as they were
C18_Step ==
    (/\ last'.op = "remove" /\ last'.ok
     /\ RowsWith(db.rows[get_table_name(last'.m)], IdColumn(get_table_name(last'.m)), last'.id) = <<>>) =>
        /\ last'.ret = PyBool(TRUE)
        /\ db'.rows = db.rows
        /\ items'[last'.m] = items[last'.m]

\* C18: remove is idempotent
C18_RemoveIdempotent == [][C18_Step]_vars

\* C17 (step): an error value that is set stays set, and it changes only in
\* a call in which something failed
C17_Step ==
    db.error # PyNone =>
        /\ db'.error # PyNone
        /\ db'.error # db.error => ~last'.ok

\* C17: the adapter's error value is never cleared
C17_ErrorNeverCleared == [][C17_Step]_vars

\* C17 witness: a call in which every database call worked has returned
\* True, and the error of an earlier failure is still there
C17_Witness ==
    /\ db.error # PyNone
    /\ last.op \in {"remove", "load_all", "create_tables"}
    /\ last.ok /\ last.ret = PyBool(TRUE)
    /\ \A i \in 1 .. Len(db.stmts) : db.stmts[i].ok
    /\ db.stmts # <<>>

\* C19 (step): a call that issues a statement while the adapter has no open
\* connection (never connected, or disconnected) first opens one, so that
\* with a working database the statement runs
C19_Step ==
    (/\ db.conn \in {"none", "closed"}
     /\ \/ last'.op \in {"remove", "load_all", "get_by_id"}
        \/ last'.op = "create_tables" /\ last'.made.tables # <<>>
     /\ faults' = faults) =>
        /\ db'.conn = "open"
        /\ db'.stmts # <<>> /\ db'.stmts[1].ok

\* C19: execute_query establishes a connection whenever there is none open
C19_ExecuteQueryConnects == [][C19_Step]_vars

\* C12: whenever the controller is idle, both managers and the controller
\* refer to one and the same connection object
C12_OneConnectionObject ==
    ctl.phase = "idle" =>
        /\ ctl.product_manager_db = ctl.db_connection
        /\ ctl.customer_manager_db = ctl.db_connection

\* C12 witness: a reconnect has completed on a second connection object
C12_Witness ==
    /\ ctl.phase = "idle"
    /\ last.op = "_reconnect_database" /\ last.exc = "none"
    /\ ctl.db_connection = 2
    /\ ctl.conns[1].d.conn = "closed"

\* a customers row whose values Customer.__init__ accepts
CustomerRowValid(row) ==
    /\ row.customer_id.t = "int"
    /\ Truthy(row.name) /\ Truthy(row.address)
    /\ row.email.t = "str" /\ row.email.s \in WellFormedEmails

\* C21 (step): a load_all of the CustomerManager whose SELECT worked, over
\* a customers table holding n rows with valid values, returns True and
\* leaves n cached Customer objects whose ids are the rows' customer_id
\* values, in row order
C21_Step ==
    (/\ last'.op = "load_all" /\ last'.m = "CustomerManager" /\ last'.ok
     /\ db'.conn = "open"
     /\ \A i \in 1 .. Len(db'.rows["customers"]) : CustomerRowValid(db'.rows["customers"][i])) =>
        /\ last'.ret = PyBool(TRUE)
        /\ Len(items'["CustomerManager"]) = Len(db'.rows["customers"])
        /\ \A i \in 1 .. Len(items'["CustomerManager"]) :
              /\ heap'[items'["CustomerManager"][i]].cls = "Customer"
              /\ heap'[items'["CustomerManager"][i]].customerId = db'.rows["customers"][i].customer_id

\* C21: CustomerManager.load_all over n valid rows returns True and caches
\* n Customer objects with the rows' ids
C21_CustomerLoadAll == [][C21_Step]_vars

\* the Customer that stands for a customers row
RowCustomer(row) ==
    [cls |-> "Customer", customerId |-> row.customer_id, name |-> row.name,
     address |-> row.address, email |-> row.email, phone |-> row.phone]

\* the rows of manager m's table in the database the controller is connected to
ConnectedRows(c, m) == c.conns[c.db_connection].d.rows[get_table_name(m)]

\* C22 (step): a _reconnect_database leaves the old connection closed even
\* when the factory raised (the disconnect comes first); when it completes
\* with every database call working, both managers use the new connection
\* object and each cache holds one object per row of the new database, in
\* row order, and nothing else
C22_Step ==
    last'.op = "_reconnect_database" =>
        /\ ctl.db_connection # 0 => ctl'.conns[ctl.db_connection].d.conn = "closed"
        /\ (last'.exc = "none" /\ last'.ok) =>
              /\ ctl'.db_connection = Len(ctl.conns) + 1
              /\ ctl'.product_manager_db = ctl'.db_connection
              /\ ctl'.customer_manager_db = ctl'.db_connection
              /\ Objs(items'["ProductManager"], heap')
                    = [i \in 1 .. Len(ConnectedRows(ctl', "ProductManager")) |->
                          RowProduct(ConnectedRows(ctl', "ProductManager")[i])]
              /\ Objs(items'["CustomerManager"], heap')
                    = [i \in 1 .. Len(ConnectedRows(ctl', "CustomerManager")) |->
                          RowCustomer(ConnectedRows(ctl', "CustomerManager")[i])]

\* C22: when _reconnect_database completes, the old connection was
\* disconnected before the new one was created, both managers use the new
\* connection, and each cache holds exactly the rows of the new database
C22_ReconnectReloads == [][C22_Step]_vars

\* the entries of a list, with how often each occurs
Entries(w) == [e \in {w[i] : i \in 1 .. Len(w)} |-> Cardinality({i \in 1 .. Len(w) : w[i] = e})]

\* C23: after _add_product, _remove_product or _reconnect_database has
\* returned, whether its manager call succeeded or failed, the product list
\* widget shows one entry per cached product and no other entry
C23_ListShowsCache ==
    (ctl.shown /\ last.op \in {"_add_product", "_remove_product", "_reconnect_database"}
               /\ last.exc = "none") =>
        Entries(ctl.listWidget)
            = Entries(ProductFormView_updateProductList(items["ProductManager"], heap))

====
